---- MODULE Spec2Model ----
(***************************************************************************)
(* A model of src/model.py: the FESModel derivative function               *)
(* (activation dynamics, force-velocity relation, joint torque balance),   *)
(* the lookup of the excitation and external-state series inside           *)
(* get_derivative, and the simulate driver around solve_ivp.                *)
(*                                                                         *)
(* Python floats are IEEE-754 binary64 numbers.  They are modelled here    *)
(* bit-exactly (53-bit significand, round to nearest, ties to even) on top *)
(* of a small arbitrary-precision natural-number arithmetic, because two   *)
(* of the properties below are decided by rounding.  The exponent range is *)
(* not bounded: no input of the model comes near overflow or underflow.    *)
(***************************************************************************)
EXTENDS Integers, Sequences, FiniteSets, TLC

(***************************************************************************)
(* The(S) is the element of a one-element set.  The arithmetic below       *)
(* writes The({F(v) : v \in {x}}) for F(x) wherever x is costly and F uses *)
(* it more than once: v is bound to the value of x, computed once.         *)
(***************************************************************************)
The(S) == CHOOSE r \in S : TRUE

(***************************************************************************)
(* Arbitrary-precision naturals: little-endian sequences of limbs below    *)
(* LimbBase, without a leading zero limb; <<>> is zero.                     *)
(***************************************************************************)
LimbBits == 15

LimbBase == 32768

Limb(a, i) == IF i <= Len(a) THEN a[i] ELSE 0

RECURSIVE BNormAt(_, _)
BNormAt(a, n) ==
  IF n = 0 THEN <<>> ELSE IF a[n] = 0 THEN BNormAt(a, n - 1) ELSE SubSeq(a, 1, n)

\* a without its leading zero limbs
BNorm(a) == The({BNormAt(v, Len(v)) : v \in {a}})

\* the natural n < LimbBase^3
BFromInt(n) ==
  BNorm(<<n % LimbBase, (n \div LimbBase) % LimbBase, n \div (LimbBase * LimbBase)>>)

RECURSIVE BAddC(_, _, _, _)
BAddC(a, b, i, c) ==
  IF i > Len(a) /\ i > Len(b) THEN (IF c = 0 THEN <<>> ELSE <<c>>)
  ELSE <<(Limb(a, i) + Limb(b, i) + c) % LimbBase>>
       \o BAddC(a, b, i + 1, (Limb(a, i) + Limb(b, i) + c) \div LimbBase)

BAdd(a, b) == The({BAddC(x, y, 1, 0) : x \in {a}, y \in {b}})

RECURSIVE BSubC(_, _, _, _)
BSubC(a, b, i, br) ==
  IF i > Len(a) THEN <<>>
  ELSE <<(Limb(a, i) - Limb(b, i) - br) % LimbBase>>
       \o BSubC(a, b, i + 1, IF Limb(a, i) - Limb(b, i) - br < 0 THEN 1 ELSE 0)

\* a - b for a >= b
BSub(a, b) == BNorm(The({BSubC(x, y, 1, 0) : x \in {a}, y \in {b}}))

RECURSIVE BCmpAt(_, _, _)
BCmpAt(a, b, i) ==
  IF i = 0 THEN 0
  ELSE IF a[i] > b[i] THEN 1
  ELSE IF a[i] < b[i] THEN -1
  ELSE BCmpAt(a, b, i - 1)

BCmpV(a, b) ==
  IF Len(a) > Len(b) THEN 1
  ELSE IF Len(a) < Len(b) THEN -1
  ELSE BCmpAt(a, b, Len(a))

\* -1, 0, 1 as a < b, a = b, a > b
BCmp(a, b) == The({BCmpV(x, y) : x \in {a}, y \in {b}})

RECURSIVE BMulSmallC(_, _, _, _)
BMulSmallC(a, k, i, c) ==
  IF i > Len(a) THEN (IF c = 0 THEN <<>> ELSE <<c>>)
  ELSE <<(a[i] * k + c) % LimbBase>> \o BMulSmallC(a, k, i + 1, (a[i] * k + c) \div LimbBase)

\* a * k for 0 <= k < LimbBase
BMulSmall(a, k) ==
  The({IF y = 0 THEN <<>> ELSE BMulSmallC(x, y, 1, 0) : x \in {a}, y \in {k}})

IntBitLen(n) == CHOOSE k \in 0..LimbBits : (k = 0 \/ n >= 2 ^ (k - 1)) /\ n < 2 ^ k

BitLen(a) ==
  The({IF v = <<>> THEN 0 ELSE LimbBits * (Len(v) - 1) + IntBitLen(v[Len(v)]) : v \in {a}})

BIsOdd(a) == The({v # <<>> /\ v[1] % 2 = 1 : v \in {a}})

RECURSIVE BZeros(_)
BZeros(n) == IF n = 0 THEN <<>> ELSE <<0>> \o BZeros(n - 1)

\* a * LimbBase^n
BShiftLimbs(a, n) == The({IF v = <<>> THEN <<>> ELSE BZeros(n) \o v : v \in {a}})

RECURSIVE BMulAt(_, _, _)
BMulAt(a, b, i) ==
  IF i > Len(b) THEN <<>>
  ELSE BAdd(BShiftLimbs(BMulSmall(a, b[i]), i - 1), BMulAt(a, b, i + 1))

BMul(a, b) == The({BMulAt(x, y, 1) : x \in {a}, y \in {b}})

\* a * 2^k
BShl(a, k) ==
  The({BShiftLimbs(BMulSmall(a, 2 ^ (n % LimbBits)), n \div LimbBits) : n \in {k}})

RECURSIVE BShrSmallAt(_, _, _)
BShrSmallAt(a, s, i) ==
  IF i > Len(a) THEN <<>>
  ELSE <<(a[i] \div (2 ^ s)) + (Limb(a, i + 1) % (2 ^ s)) * (2 ^ (LimbBits - s))>>
       \o BShrSmallAt(a, s, i + 1)

BShrV(a, k) ==
  IF k \div LimbBits >= Len(a) THEN <<>>
  ELSE BNorm(The({BShrSmallAt(top, k % LimbBits, 1) :
                    top \in {SubSeq(a, k \div LimbBits + 1, Len(a))}}))

\* floor(a / 2^k)
BShr(a, k) == The({BShrV(x, y) : x \in {a}, y \in {k}})

\* q, or q - 1 when q * v exceeds r
BDivDigitFix(v, r, q) == The({IF BCmp(BMulSmall(v, n), r) > 0 THEN n - 1 ELSE n : n \in {q}})

\* the largest digit q with q * v <= r, for r < v * LimbBase and the top limb of v
\* at least LimbBase / 2 (the estimate from the top limbs is then at most 2 too big)
BDivDigit(v, r) ==
  BDivDigitFix(v, r,
    BDivDigitFix(v, r,
      The({IF est > LimbBase - 1 THEN LimbBase - 1 ELSE est :
             est \in {(Limb(r, Len(v) + 1) * LimbBase + Limb(r, Len(v))) \div v[Len(v)]}})))

\* one limb more of the dividend: r is the remainder so far with that limb appended,
\* d the quotient digit it gives
BDivNext(v, q, r, d) == <<BNorm(<<d>> \o q), BSub(r, BMulSmall(v, d))>>

\* schoolbook long division, one limb of the dividend u at a time from the top;
\* qr is <<quotient, remainder>> so far
RECURSIVE BDivLimbs(_, _, _, _)
BDivLimbs(u, v, j, qr) ==
  IF j = 0 THEN qr
  ELSE The({BDivLimbs(u, v, j - 1, n) :
              n \in {BDivNext(v, qr[1], r, BDivDigit(v, r)) :
                       r \in {BNorm(<<u[j]>> \o qr[2])}}})

BDivModV(a, b, s) ==
  The({<<qr[1], BShr(qr[2], s)>> :
         qr \in {BDivLimbs(u, v, Len(u), <<<<>>, <<>>>>) :
                   u \in {BShl(a, s)}, v \in {BShl(b, s)}}})

\* <<floor(a / b), a mod b>> for b > 0
BDivMod(a, b) ==
  The({BDivModV(x, y, LimbBits - IntBitLen(y[Len(y)])) : x \in {a}, y \in {b}})

RECURSIVE BPow10(_)
BPow10(k) == IF k = 0 THEN <<1>> ELSE BMulSmall(BPow10(k - 1), 10)

(***************************************************************************)
(* binary64 floats: [sgn, m, e] is sgn * m * 2^e with m zero or a          *)
(* MantBits-bit natural.  sgn = 0 marks the non-finite outcome of a        *)
(* division by zero, which every later operation propagates.               *)
(***************************************************************************)
MantBits == 53

FInvalid == [sgn |-> 0, m |-> <<>>, e |-> 0]

FZero(sgn) == [sgn |-> sgn, m |-> <<>>, e |-> 0]

\* q * 2^E with q of MantBits bits or one more (after rounding up)
FRenorm(sgn, q, E) ==
  IF BitLen(q) > MantBits
  THEN [sgn |-> sgn, m |-> BShr(q, 1), e |-> E + 1]
  ELSE [sgn |-> sgn, m |-> q, e |-> E]

\* q * 2^E rounded up to the next float or not, as the part cut off (c: -1, 0, 1
\* as it is below, at or above half a unit of q) says: to nearest, ties to even
FRoundUp(sgn, q, c, E) ==
  The({FRenorm(sgn, q2, E) :
         q2 \in {IF c > 0 \/ (c = 0 /\ BIsOdd(q)) THEN BAdd(q, <<1>>) ELSE q}})

\* M of L > MantBits bits: the k = L - MantBits low bits are cut off
FRoundCut(sgn, M, E, k) ==
  The({FRoundUp(sgn, q, BCmp(BSub(M, BShl(q, k)), BShl(<<1>>, k - 1)), E + k) :
         q \in {BShr(M, k)}})

FRoundV(sgn, M, E, L) ==
  IF M = <<>> THEN FZero(sgn)
  ELSE IF L <= MantBits
  THEN [sgn |-> sgn, m |-> BShl(M, MantBits - L), e |-> E - (MantBits - L)]
  ELSE FRoundCut(sgn, M, E, L - MantBits)

\* sgn * M * 2^E rounded to the nearest float, ties to even
FRound(sgn, M, E) ==
  The({FRoundV(s, Mv, Ev, BitLen(Mv)) : s \in {sgn}, Mv \in {M}, Ev \in {E}})

\* the quotient to MantBits + 2 bits or more, and a last bit that says whether
\* anything remained
FQuotV(sgn, N, D, E, k) ==
  The({FRound(sgn, BAdd(BMulSmall(qr[1], 2), IF qr[2] = <<>> THEN <<>> ELSE <<1>>),
              E - k - 1) :
         qr \in {BDivMod(BShl(N, k), D)}})

\* sgn * (N / D) * 2^E, correctly rounded, for naturals N, D > 0
FQuot(sgn, N, D, E) ==
  The({FQuotV(sgn, Nv, Dv, E,
              IF BitLen(Dv) + MantBits + 3 > BitLen(Nv)
              THEN BitLen(Dv) + MantBits + 3 - BitLen(Nv) ELSE 0) :
         Nv \in {N}, Dv \in {D}})

FromInt(n) == FRound(IF n < 0 THEN -1 ELSE 1, BFromInt(IF n < 0 THEN -n ELSE n), 0)

\* the float a decimal literal n * 10^(-k) denotes
Dec(n, k) ==
  IF n = 0 THEN FZero(1)
  ELSE FQuot(IF n < 0 THEN -1 ELSE 1, BFromInt(IF n < 0 THEN -n ELSE n), BPow10(k), 0)

FNeg(a) == The({[v EXCEPT !.sgn = -v.sgn] : v \in {a}})

FMulV(a, b) ==
  IF a.sgn = 0 \/ b.sgn = 0 THEN FInvalid
  ELSE FRound(a.sgn * b.sgn, BMul(a.m, b.m), a.e + b.e)

FMul(a, b) == The({FMulV(x, y) : x \in {a}, y \in {b}})

FDivV(a, b) ==
  IF a.sgn = 0 \/ b.sgn = 0 \/ b.m = <<>> THEN FInvalid
  ELSE IF a.m = <<>> THEN FZero(a.sgn * b.sgn)
  ELSE FQuot(a.sgn * b.sgn, a.m, b.m, a.e - b.e)

FDiv(a, b) == The({FDivV(x, y) : x \in {a}, y \in {b}})

\* a + b for nonzero a, b with their significands A, B brought to the exponent e
\* (c is BCmp(A, B))
FAddAligned(a, b, A, B, c, e) ==
  IF a.sgn = b.sgn THEN FRound(a.sgn, BAdd(A, B), e)
  ELSE IF c = 0 THEN FZero(1)
  ELSE IF c > 0 THEN FRound(a.sgn, BSub(A, B), e)
  ELSE FRound(b.sgn, BSub(B, A), e)

FAddE(a, b, e) ==
  The({FAddAligned(a, b, A, B, BCmp(A, B), e) :
         A \in {BShl(a.m, a.e - e)}, B \in {BShl(b.m, b.e - e)}})

FAddV(a, b) ==
  IF a.sgn = 0 \/ b.sgn = 0 THEN FInvalid
  ELSE IF a.m = <<>> /\ b.m = <<>> THEN FZero(IF a.sgn = -1 /\ b.sgn = -1 THEN -1 ELSE 1)
  ELSE IF a.m = <<>> THEN b
  ELSE IF b.m = <<>> THEN a
  ELSE FAddE(a, b, IF a.e < b.e THEN a.e ELSE b.e)

FAdd(a, b) == The({FAddV(x, y) : x \in {a}, y \in {b}})

FSub(a, b) == FAdd(a, FNeg(b))

\* a < b
FLt(a, b) == The({d.sgn = -1 /\ d.m # <<>> : d \in {FSub(a, b)}})

\* a == b (0.0 == -0.0)
FEq(a, b) == The({d.sgn # 0 /\ d.m = <<>> : d \in {FSub(a, b)}})

\* a <= b
FLe(a, b) == The({d.sgn # 0 /\ (d.m = <<>> \/ d.sgn = -1) : d \in {FSub(a, b)}})

One == FromInt(1)

Zero == FZero(1)

\* the integer a float truncates to (toward zero)
FTruncV(t) ==
  The({t.sgn * (Limb(mag, 1) + LimbBase * Limb(mag, 2)) :
         mag \in {IF t.e >= 0 THEN BShl(t.m, t.e) ELSE BShr(t.m, -t.e)}})

FTrunc(t) == The({FTruncV(v) : v \in {t}})

\* the subscript of the line commented out in get_derivative: int(t * 1000)
PyInt_ms(t) == FTrunc(FMul(t, FromInt(1000)))

\* int(t)
PyInt(t) == FTrunc(t)

\* seq[i] with Python's subscripts: 0-based, negative ones count from the end,
\* anything else is an IndexError
PyIndexOK(seq, i) == -Len(seq) <= i /\ i < Len(seq)

PyGet(seq, i) == IF i >= 0 THEN seq[i + 1] ELSE seq[Len(seq) + i + 1]

(***************************************************************************)
(* math.exp, math.cos, math.sin and math.pow are library functions: their  *)
(* results are kept as terms over their float arguments, and arithmetic on *)
(* a term builds a term.                                                   *)
(***************************************************************************)
IsFloat(v) == "sgn" \in DOMAIN v

MathCall(fn, a) == [fn |-> fn, arg |-> a]

Term(op, l, r) == [op |-> op, l |-> l, r |-> r]

TMulV(a, b) == IF IsFloat(a) /\ IsFloat(b) THEN FMul(a, b) ELSE Term("*", a, b)

TMul(a, b) == The({TMulV(x, y) : x \in {a}, y \in {b}})

TAddV(a, b) == IF IsFloat(a) /\ IsFloat(b) THEN FAdd(a, b) ELSE Term("+", a, b)

TAdd(a, b) == The({TAddV(x, y) : x \in {a}, y \in {b}})

TSubV(a, b) == IF IsFloat(a) /\ IsFloat(b) THEN FSub(a, b) ELSE Term("-", a, b)

TSub(a, b) == The({TSubV(x, y) : x \in {a}, y \in {b}})

TNeg(a) == The({IF IsFloat(v) THEN FNeg(v) ELSE Term("neg", v, v) : v \in {a}})

(***************************************************************************)
(* FESModel                                                                *)
(***************************************************************************)
\* the constants __init__ sets
Parameters ==
  [TAct |-> Dec(1, 2), TDeact |-> Dec(4, 2), J |-> Dec(197, 4), d |-> Dec(37, 1),
   B |-> Dec(82, 2), cF |-> Dec(1145, 2), mF |-> Dec(10275, 4), aV |-> Dec(133, 2),
   fv1 |-> Dec(18, 2), fv2 |-> Dec(23, 3), vMax |-> Dec(-9, 1), FMax |-> FromInt(600),
   W |-> Dec(56, 2), lT |-> Dec(223, 1), lMT0 |-> Dec(321, 1),
   a |-> <<Dec(210, 2), Dec(-8, 2), Dec(-797, 2), Dec(19, 2), Dec(-179, 2)>>,
   g |-> Dec(981, 2)]

FESModel(excitation_input, external_state_vector) ==
  [u |-> excitation_input, x_ext |-> external_state_vector] @@ Parameters

\* EQN 4.  x is <<x1, x2, x3>>
roc_excitation_x2(self, x, excitation_at_time) ==
  FMul(FSub(excitation_at_time, x[2]),
       FSub(FDiv(excitation_at_time, self.TAct),
            FDiv(FSub(One, excitation_at_time), self.TDeact)))

roc_excitation(self, x, excitation_at_time) ==
  LET x1 == x[1]
  IN FMul(FSub(excitation_at_time, x1),
          FSub(FDiv(excitation_at_time, self.TAct),
               FDiv(FSub(One, excitation_at_time), self.TDeact)))

\* EQN 5
rot_velocity(self, x) == x[3]

\* EQN 7
tor_gravity(self, state_vector) ==
  LET x2 == state_vector[2]
  IN TMul(TMul(FMul(FNeg(self.mF), self.cF), MathCall("cos", x2)), self.g)

\* EQN 8
tor_ankle(self, state_vector, x_ext_at_time) ==
  LET x1_ext == x_ext_at_time[1]
      x2_ext == x_ext_at_time[2]
      x2 == state_vector[2]
  IN TMul(FMul(self.mF, self.cF),
          TSub(TMul(x1_ext, MathCall("sin", x2)), TMul(x2_ext, MathCall("cos", x2))))

\* Equation 9
get_torque_elastic(self, x) ==
  TAdd(TSub(MathCall("exp", FAdd(self.a[1], FMul(self.a[2], x[2]))),
            MathCall("exp", FAdd(self.a[3], FMul(self.a[4], x[2])))),
       self.a[5])

\* Equation 11
get_Ffl(self, x, x_ext) ==
  LET lMT == FAdd(self.lMT0, FMul(self.d, FSub(x_ext[3], x[2])))
      lCE == FSub(lMT, self.lT)
      lCE_opt == FSub(self.lMT0, self.lT)
  IN MathCall("exp",
       TNeg(MathCall("pow", FDiv(FSub(lCE, lCE_opt), FMul(self.W, lCE_opt)))))

\* Equation 12: the contraction speed, and the two cases with their denominators
get_vCE(self, x, x_ext) == FMul(self.d, FSub(x_ext[4], x[3]))

Ffv_contracting_den(self, vCE) == FAdd(One, FDiv(vCE, FMul(self.vMax, self.fv1)))

Ffv_contracting(self, vCE) ==
  FDiv(FSub(One, FDiv(vCE, self.vMax)), Ffv_contracting_den(self, vCE))

Ffv_extending_den(self, vCE) == FAdd(One, FDiv(vCE, self.fv2))

Ffv_extending(self, vCE) ==
  FDiv(FSub(One, FMul(self.aV, FDiv(vCE, self.fv2))), Ffv_extending_den(self, vCE))

\* the case `vCE <= 0` instead of `vCE < 0`
get_Ffv_case_le(self, x, x_ext) ==
  LET vCE == get_vCE(self, x, x_ext)
  IN IF FLe(vCE, Zero)
     THEN [vCE |-> vCE, case |-> "contracting", den |-> Ffv_contracting_den(self, vCE),
           Ffv |-> Ffv_contracting(self, vCE)]
     ELSE [vCE |-> vCE, case |-> "extending", den |-> Ffv_extending_den(self, vCE),
           Ffv |-> Ffv_extending(self, vCE)]

\* the contracting case dividing by 1 - vCE/(vMax*fv1)
get_Ffv_case_minus(self, x, x_ext) ==
  LET vCE == get_vCE(self, x, x_ext)
      den == FSub(One, FDiv(vCE, FMul(self.vMax, self.fv1)))
  IN IF FLt(vCE, Zero)
     THEN [vCE |-> vCE, case |-> "contracting", den |-> den,
           Ffv |-> FDiv(FSub(One, FDiv(vCE, self.vMax)), den)]
     ELSE [vCE |-> vCE, case |-> "extending", den |-> Ffv_extending_den(self, vCE),
           Ffv |-> Ffv_extending(self, vCE)]

\* get_Ffv with what it went through: the speed, the case taken, the divisor
get_Ffv_case(self, x, x_ext) ==
  LET vCE == get_vCE(self, x, x_ext)
  IN IF FLt(vCE, Zero)
     THEN [vCE |-> vCE, case |-> "contracting", den |-> Ffv_contracting_den(self, vCE),
           Ffv |-> Ffv_contracting(self, vCE)]
     ELSE [vCE |-> vCE, case |-> "extending", den |-> Ffv_extending_den(self, vCE),
           Ffv |-> Ffv_extending(self, vCE)]

get_Ffv(self, x, x_ext) == get_Ffv_case(self, x, x_ext).Ffv

\* Equation 10
get_muscle_force(self, x, x_ext_at_time) ==
  LET Ffl == get_Ffl(self, x, x_ext_at_time)
      Ffv == get_Ffv(self, x, x_ext_at_time)
  IN TMul(TMul(FMul(x[1], self.FMax), Ffl), Ffv)

\* EQN 6
rot_acceleration(self, state_vector, x_ext_at_time) ==
  LET left == TMul(TMul(FDiv(One, self.J),
                        get_muscle_force(self, state_vector, x_ext_at_time)), self.d)
      T_grav == tor_gravity(self, state_vector)
      T_acc == tor_ankle(self, state_vector, x_ext_at_time)
      T_ela == get_torque_elastic(self, state_vector)
      right == FMul(self.B, FSub(x_ext_at_time[4], state_vector[3]))
  IN TAdd(TAdd(TAdd(TAdd(left, T_grav), T_acc), T_ela), right)

(***************************************************************************)
(* get_derivative.  g is the module-level name x_ext the loop body reads   *)
(* (`x_ext[i]`, not `self.x_ext[i]`): Unbound when the module has not      *)
(* defined it.  The result records what the call went through: the         *)
(* exception raised ("" for none), the subscripts evaluated, the sampled   *)
(* values, and self and x as the call leaves them.                         *)
(***************************************************************************)
Unbound == <<"unbound">>

ExtRead(i, k) == [var |-> "x_ext", chan |-> i, index |-> k, field |-> 1]

\* for i in range(len(self.x_ext)): ...   (i and k are Python subscripts)
RECURSIVE ExtLoop(_, _, _, _, _)
ExtLoop(self, g, t, i, acc) ==
  IF i >= Len(self.x_ext) THEN acc
  ELSE IF g = Unbound THEN [acc EXCEPT !.raised = "NameError"]
  ELSE IF ~PyIndexOK(g, i) THEN [acc EXCEPT !.raised = "IndexError"]
  ELSE LET x_ext_vector == PyGet(g, i)
           k == PyInt(t)
           tried == [acc EXCEPT !.reads = Append(@, ExtRead(i, k))]
       IN IF ~PyIndexOK(x_ext_vector, k) THEN [tried EXCEPT !.raised = "IndexError"]
          ELSE IF ~PyIndexOK(acc.x_ext_at_time, i) THEN [tried EXCEPT !.raised = "IndexError"]
          ELSE ExtLoop(self, g, t, i + 1,
                       [tried EXCEPT !.x_ext_at_time[i + 1] = PyGet(PyGet(x_ext_vector, k), 1)])

\* lines 145-151: the external state and the excitation at time t
Sample(self, g, t) ==
  LET ext == ExtLoop(self, g, t, 0,
                     [x_ext_at_time |-> <<Zero, Zero, Zero, Zero>>, reads |-> <<>>, raised |-> ""])
      k == PyInt(t)
      tried == [ext EXCEPT !.reads = Append(@, [var |-> "self.u", index |-> k])]
  IN IF ext.raised # "" THEN ext @@ [excitation_at_time |-> Zero]
     ELSE IF ~PyIndexOK(self.u, k) THEN [tried EXCEPT !.raised = "IndexError"] @@ [excitation_at_time |-> Zero]
     ELSE tried @@ [excitation_at_time |-> PyGet(self.u, k)]

Raised(self, x, s) ==
  [raised |-> s.raised, xDotVector |-> <<>>, reads |-> s.reads,
   x_ext_at_time |-> s.x_ext_at_time, excitation_at_time |-> s.excitation_at_time,
   Ffv |-> <<>>, self |-> self, x |-> x]

\* lines 152-159
Returned(self, x, s) ==
  LET x1Dot == roc_excitation(self, x, s.excitation_at_time)
      x2Dot == rot_velocity(self, x)
      x3Dot == rot_acceleration(self, x, s.x_ext_at_time)
  IN [raised |-> "", xDotVector |-> <<x1Dot, x2Dot, x3Dot>>, reads |-> s.reads,
      x_ext_at_time |-> s.x_ext_at_time, excitation_at_time |-> s.excitation_at_time,
      Ffv |-> get_Ffv_case(self, x, s.x_ext_at_time), self |-> self, x |-> x]

\* a get_derivative that stores the activation rate into the state vector it was given
get_derivative_in_place(self, g, t, x) ==
  LET s == Sample(self, g, t)
      r == Returned(self, x, s)
  IN IF s.raised # "" THEN Raised(self, x, s)
     ELSE [r EXCEPT !.x = [x EXCEPT ![1] = r.xDotVector[1]]]

get_derivative(self, g, t, x) ==
  LET s == Sample(self, g, t)
  IN IF s.raised # "" THEN Raised(self, x, s) ELSE Returned(self, x, s)

(***************************************************************************)
(* The inputs of the model                                                 *)
(***************************************************************************)
\* excitation series: zero throughout (two samples), 0.2 throughout (one sample)
UZero == <<Zero, Zero>>

UFifth == <<Dec(2, 1)>>

Excitations == {UZero, UFifth}

\* external-state series: four channels of <<time, value>> samples
Flat == [c \in 1..4 |-> <<<<Zero, Zero>>>>]

Gait ==
  <<<<<<Zero, Dec(1, 1)>>, <<One, Dec(3, 1)>>>>,
    <<<<Zero, Dec(-2, 1)>>, <<One, Zero>>>>,
    <<<<Zero, Dec(5, 2)>>, <<One, Dec(1, 1)>>>>,
    <<<<Zero, Dec(25, 2)>>, <<One, Dec(-25, 2)>>>>>>

ExternalSeries == {Flat, Gait}

XRest == <<Zero, FromInt(-15), Zero>>

XActive == <<Dec(5, 1), FromInt(-15), Zero>>

InitialStates == {XRest, XActive}

SimTimes == {Dec(5, 1), Dec(15, 1)}

\* the (t, x) the solver may evaluate the derivative at after the first evaluation
EvalPoints ==
  {[t |-> Zero, x |-> XRest],
   [t |-> Zero, x |-> XActive],
   [t |-> Dec(5, 1), x |-> <<Dec(2, 1), FromInt(-15), Dec(5, 1)>>],
   [t |-> Dec(5, 1), x |-> <<Zero, FromInt(-15), Dec(1, 18)>>],
   [t |-> One, x |-> <<Dec(2, 1), FromInt(-15), Dec(-5, 1)>>],
   [t |-> Dec(15, 1), x |-> XRest]}

\* the number of derivative evaluations of a run the model follows
MaxEvals == 2

(***************************************************************************)
(* The program: one run of simulate                                        *)
(***************************************************************************)
VARIABLES
  x_ext,    \* the module-level name x_ext (line 199), or Unbound
  pc,       \* "idle", "solve_ivp", "returned", "raised"
  args,     \* the arguments of simulate
  model,    \* the FESModel of the run
  nfev,     \* derivative evaluations so far
  call,     \* the last get_derivative call of the solve_ivp in progress
  last,     \* the call before it
  sol,      \* what solve_ivp returned: its status and last time point
  result    \* what simulate returned

vars == <<x_ext, pc, args, model, nfev, call, last, sol, result>>

NoCall == [made |-> FALSE]

None == <<"None">>

Init ==
  /\ x_ext \in {Unbound} \cup ExternalSeries
  /\ pc = "idle"
  /\ args = None
  /\ model = None
  /\ nfev = 0
  /\ call = NoCall
  /\ last = NoCall
  /\ sol = None
  /\ result = None

\* simulate, to the call of solve_ivp (lines 163-167)
Simulate(excitation_input, external_state_vectors, initial_state, simTime) ==
  /\ pc = "idle"
  /\ pc' = "solve_ivp"
  /\ args' = [excitation_input |-> excitation_input,
              external_state_vectors |-> external_state_vectors,
              initial_state |-> initial_state, simTime |-> simTime]
  /\ model' = FESModel(excitation_input, external_state_vectors)
  /\ UNCHANGED <<x_ext, nfev, call, last, sol, result>>

\* solve_ivp evaluates model.get_derivative: first at (0, initial_state), then at
\* points of its choice in [0, simTime].  An exception leaves solve_ivp and simulate.
SolverEval(p) ==
  /\ pc = "solve_ivp"
  /\ nfev < MaxEvals
  /\ IF nfev = 0 THEN p = [t |-> Zero, x |-> args.initial_state]
     ELSE p \in EvalPoints /\ FLe(p.t, args.simTime)
  /\ \E r \in {get_derivative(model, x_ext, p.t, p.x)} :
        /\ call' = [made |-> TRUE, t |-> p.t, x |-> p.x, x_after |-> r.x,
                    raised |-> r.raised, xDotVector |-> r.xDotVector, reads |-> r.reads,
                    x_ext_at_time |-> r.x_ext_at_time,
                    excitation_at_time |-> r.excitation_at_time, Ffv |-> r.Ffv]
        /\ model' = r.self
        /\ pc' = IF r.raised # "" THEN "raised" ELSE "solve_ivp"
  /\ last' = call
  /\ nfev' = nfev + 1
  /\ UNCHANGED <<x_ext, args, sol, result>>

\* solve_ivp reaches simTime (status 0); simulate returns sol.t and sol.y (lines 169-172)
SolverSucceeds(y) ==
  /\ pc = "solve_ivp"
  /\ nfev > 0
  /\ sol' = [status |-> 0, t |-> args.simTime, y |-> y]
  /\ result' = [time |-> sol'.t, ret |-> sol'.y]
  /\ pc' = "returned"
  /\ call' = NoCall
  /\ last' = NoCall
  /\ UNCHANGED <<x_ext, args, model, nfev>>

\* solve_ivp gives up at t < simTime (status -1: the step size fell below the spacing
\* of floats); it raises nothing, and simulate returns sol.t and sol.y all the same
SolverFails(t, y) ==
  /\ pc = "solve_ivp"
  /\ nfev > 0
  /\ FLt(t, args.simTime)
  /\ sol' = [status |-> -1, t |-> t, y |-> y]
  /\ result' = [time |-> sol'.t, ret |-> sol'.y]
  /\ pc' = "returned"
  /\ call' = NoCall
  /\ last' = NoCall
  /\ UNCHANGED <<x_ext, args, model, nfev>>

Next ==
  \/ \E e \in Excitations, v \in ExternalSeries, y0 \in InitialStates, T \in SimTimes :
       Simulate(e, v, y0, T)
  \/ \E p \in EvalPoints : SolverEval(p)
  \/ \E p \in EvalPoints : SolverSucceeds(p.x)
  \/ \E p \in EvalPoints : SolverFails(p.t, p.x)

Spec == Init /\ [][Next]_vars

(***************************************************************************)
(* Properties                                                              *)
(***************************************************************************)
\* the last get_derivative call returned a derivative vector
Evaluated == call.made /\ call.raised = ""

\* C1: in a run with excitation 0 throughout and a positive initial activation,
\* every evaluation returns x1Dot <= 0.
C1_ActivationDecays ==
  (Evaluated /\ args.excitation_input = UZero /\ FLt(Zero, args.initial_state[1]))
    => FLe(call.xDotVector[1], Zero)

\* C2: in a run with excitation 0.2 throughout, initial state (0, -15, 0) and flat
\* external channels, every evaluation at a state with x1 < 0.2 returns x1Dot > 0.
C2_ActivationRises ==
  (/\ Evaluated
   /\ args.excitation_input = UFifth
   /\ args.external_state_vectors = Flat
   /\ args.initial_state = XRest
   /\ FLt(call.x[1], Dec(2, 1)))
    => FLt(Zero, call.xDotVector[1])

\* the sample index of t lies beyond the excitation series or an external channel
\* the model was constructed with
BeyondBound(self, t) ==
  \/ PyInt(t) >= Len(self.u)
  \/ \E c \in 1..Len(self.x_ext) : PyInt(t) >= Len(self.x_ext[c])

\* C3: an evaluation at a time whose sample index is beyond the length of the
\* supplied excitation series or of a supplied external channel raises, and
\* returns no derivative vector.
C3_BeyondSeriesRaises ==
  (call.made /\ BeyondBound(model, call.t))
    => (call.raised # "" /\ call.xDotVector = <<>>)

\* C4: simulate returns a trajectory only when the solver reached simTime.
C4_ReturnsOnlyCompleteRuns ==
  pc = "returned" => (sol.status = 0 /\ FEq(result.time, args.simTime))

\* C5: at every evaluation time t >= 0 each subscript the sampler evaluates is the
\* integer part of t (k <= t < k + 1), the external channels are read in order at
\* the value component of that sample, the excitation at that sample, and the
\* values used are the ones found there; in a run with simTime < 1 every subscript
\* is 0.
C5_SampleIndexIsIntegerPart ==
  (call.made /\ FLe(Zero, call.t)) =>
    /\ \A i \in 1..Len(call.reads) :
         /\ call.reads[i].index >= 0
         /\ FLe(FromInt(call.reads[i].index), call.t)
         /\ FLt(call.t, FromInt(call.reads[i].index + 1))
         /\ (FLt(args.simTime, One) => call.reads[i].index = 0)
         /\ (call.reads[i].var = "x_ext" =>
               call.reads[i].chan = i - 1 /\ call.reads[i].field = 1)
    /\ call.raised = "" =>
         /\ Len(call.reads) = 5
         /\ call.reads[5].var = "self.u"
         /\ call.excitation_at_time = model.u[call.reads[5].index + 1]
         /\ \A c \in 1..4 :
              call.x_ext_at_time[c] = x_ext[c][call.reads[c].index + 1][2]

\* C5 witness: an evaluation at t = 1.5 used sample 1 of every series
C5_Witness ==
  /\ Evaluated
  /\ call.t = Dec(15, 1)
  /\ \A i \in 1..5 : call.reads[i].index = 1

\* C6: an evaluation at a time within the series the model was constructed with
\* returns, and the external state it uses is the one of the model's own series.
C6_ReadsOwnSeries ==
  (call.made /\ FLe(Zero, call.t) /\ ~BeyondBound(model, call.t)) =>
    /\ call.raised = ""
    /\ \A c \in 1..4 :
         call.x_ext_at_time[c] = PyGet(PyGet(PyGet(model.x_ext, c - 1), PyInt(call.t)), 1)

\* C7: a get_derivative call leaves the state vector it was given, the excitation
\* series, the external-state series and every parameter of the model as they
\* were, and a call repeated with the same (t, x) returns the same derivative.
C7_ReadOnly ==
  /\ pc # "idle" => model = FESModel(args.excitation_input, args.external_state_vectors)
  /\ call.made =>
       /\ call.x_after = call.x
       /\ (last.made /\ last.t = call.t /\ last.x = call.x) =>
            (last.raised = call.raised /\ last.xDotVector = call.xDotVector)

\* C7 witness: a call was repeated with the same (t, x) and returned
C7_Witness ==
  /\ Evaluated
  /\ last.made
  /\ last.t = call.t
  /\ last.x = call.x
  /\ call.xDotVector[1] # Zero

\* C8: get_Ffv takes the contracting case exactly when vCE = d*(x_ext[3] - x3) is
\* below zero and the extending case otherwise, vCE == 0 included; it returns the
\* formula of that case; and both formulas give exactly 1 at vCE == 0.
C8_StrictSignSelectsCase ==
  Evaluated =>
    /\ call.Ffv.vCE = FMul(model.d, FSub(call.x_ext_at_time[4], call.x[3]))
    /\ call.Ffv.case = (IF call.Ffv.vCE.sgn = -1 /\ call.Ffv.vCE.m # <<>>
                          THEN "contracting" ELSE "extending")
    /\ call.Ffv.Ffv = (IF call.Ffv.case = "contracting"
                         THEN Ffv_contracting(model, call.Ffv.vCE)
                         ELSE Ffv_extending(model, call.Ffv.vCE))
    /\ call.Ffv.vCE.m = <<>> => (call.Ffv.case = "extending" /\ call.Ffv.Ffv = One)
    /\ \A z \in {FZero(1), FZero(-1)} :
         Ffv_contracting(model, z) = One /\ Ffv_extending(model, z) = One

\* C8 witness: an evaluation with vCE == 0
C8_Witness == Evaluated /\ call.Ffv.vCE.m = <<>>

\* time constants other than the ones __init__ sets
TimeConstants == {Dec(4, 2), Dec(3, 0), Dec(-7, 9)}

\* C9: where the excitation equals the activation x1, roc_excitation returns 0,
\* with the time constants of the model and with any others.
C9_FixedPoint ==
  Evaluated =>
    /\ FEq(call.excitation_at_time, call.x[1]) => FEq(call.xDotVector[1], Zero)
    /\ \A ta \in TimeConstants, td \in TimeConstants :
         FEq(roc_excitation([model EXCEPT !.TAct = ta, !.TDeact = td], call.x, call.x[1]),
             Zero)

\* C9 witness: an evaluation at a nonzero activation equal to the excitation
C9_Witness ==
  /\ Evaluated
  /\ call.x[1] # Zero
  /\ FEq(call.excitation_at_time, call.x[1])

\* C10, as stated: the divisor of the case get_Ffv takes is above 1 in the
\* contracting case (vCE < 0) and at least 1 in the extending case.
C10_DivisorAboveOneContracting ==
  Evaluated =>
    IF call.Ffv.case = "contracting"
    THEN FLt(One, call.Ffv.den)
    ELSE FLe(One, call.Ffv.den)

\* C10, amended: the divisor of the case get_Ffv takes is at least 1 in both
\* cases (it can equal 1 at a vCE below zero), so get_Ffv never divides by zero
\* and Ffv is a finite number.
C10_DivisorAtLeastOne ==
  Evaluated =>
    /\ call.Ffv.den = (IF call.Ffv.case = "contracting"
                         THEN Ffv_contracting_den(model, call.Ffv.vCE)
                         ELSE Ffv_extending_den(model, call.Ffv.vCE))
    /\ FLe(One, call.Ffv.den)
    /\ call.Ffv.Ffv.sgn # 0

\* C10 witness: an evaluation in the contracting case whose divisor is exactly 1
C10_Witness ==
  /\ Evaluated
  /\ call.Ffv.case = "contracting"
  /\ call.Ffv.den = One
====
